---- MODULE Spec2Model ----
(***************************************************************************)
(* Model of src/floats.cpp: accuracy_bound, accuracy_vector and main.      *)
(*                                                                         *)
(* The template parameter T is a binary floating-point type.  A type is a  *)
(* record [p, emin, emax] (significand width and exponent range), a value  *)
(* of the type is a record [k, s, m, e]: kind ("fin", "inf", "nan"), sign, *)
(* significand and exponent of the last significand bit, so that a finite  *)
(* value is (-1)^s * m * 2^e.  The operators +, / and * of T round to      *)
(* nearest, ties to even, with gradual underflow, overflow to infinity,    *)
(* signed zeros and NaN, as the hardware the program is built for does.    *)
(* Significands are natural numbers of any size, kept as sequences of      *)
(* digits of 15 bits, least significant first, without leading zeros.      *)
(***************************************************************************)
EXTENDS Integers, Sequences, FiniteSets, TLC

\* ------------------------------------------------------------------------
\* Natural numbers of any size (the significands of T).

Base == 2^15

Pow2(k) == 2^k

RECURSIVE BNorm(_)
BNorm(a) ==
    IF a = <<>> THEN <<>>
    ELSE IF a[Len(a)] = 0 THEN BNorm(SubSeq(a, 1, Len(a) - 1))
    ELSE a

RECURSIVE BFromInt(_)
BFromInt(n) ==
    IF n = 0 THEN <<>> ELSE <<n % Base>> \o BFromInt(n \div Base)

RECURSIVE BAddC(_, _, _)
BAddC(a, b, c) ==
    IF a = <<>> /\ b = <<>> THEN (IF c = 0 THEN <<>> ELSE <<c>>)
    ELSE LET x == IF a = <<>> THEN 0 ELSE Head(a)
             y == IF b = <<>> THEN 0 ELSE Head(b)
             s == x + y + c
         IN  <<s % Base>>
               \o BAddC(IF a = <<>> THEN a ELSE Tail(a),
                        IF b = <<>> THEN b ELSE Tail(b), s \div Base)

BAdd(a, b) == BAddC(a, b, 0)

\* a - b - c for a >= b + c, before the leading zeros are removed.
RECURSIVE BSubC(_, _, _)
BSubC(a, b, c) ==
    IF a = <<>> THEN <<>>
    ELSE LET y == IF b = <<>> THEN 0 ELSE Head(b)
             s == Head(a) - y - c
         IN  <<s % Base>>
               \o BSubC(Tail(a), IF b = <<>> THEN b ELSE Tail(b),
                        IF s < 0 THEN 1 ELSE 0)

BSub(a, b) == BNorm(BSubC(a, b, 0))

\* -1, 0 or 1 as a < b, a = b, a > b.
RECURSIVE BCmpFrom(_, _, _)
BCmpFrom(a, b, i) ==
    IF i = 0 THEN 0
    ELSE IF a[i] < b[i] THEN -1
    ELSE IF a[i] > b[i] THEN 1
    ELSE BCmpFrom(a, b, i - 1)

BCmp(a, b) ==
    IF Len(a) < Len(b) THEN -1
    ELSE IF Len(a) > Len(b) THEN 1
    ELSE BCmpFrom(a, b, Len(a))

\* a * d + c for a digit d and a carry c.
RECURSIVE BMulSmallC(_, _, _)
BMulSmallC(a, d, c) ==
    IF a = <<>> THEN (IF c = 0 THEN <<>> ELSE <<c>>)
    ELSE LET s == Head(a) * d + c
         IN  <<s % Base>> \o BMulSmallC(Tail(a), d, s \div Base)

BMulSmall(a, d) == BNorm(BMulSmallC(a, d, 0))

RECURSIVE BMul(_, _)
BMul(a, b) ==
    IF a = <<>> \/ b = <<>> THEN <<>>
    ELSE BAdd(BMulSmall(b, Head(a)), BNorm(<<0>> \o BMul(Tail(a), b)))

Zeros(n) == [i \in 1..n |-> 0]

\* a * 2^k
BShl(a, k) ==
    IF a = <<>> THEN <<>>
    ELSE Zeros(k \div 15) \o BMulSmall(a, Pow2(k % 15))

\* a \div 2^k
BShr(a, k) ==
    LET q == k \div 15
        r == k % 15
        n == Len(a) - q
    IN  IF n <= 0 THEN <<>>
        ELSE BNorm([i \in 1..n |->
                     (a[q + i] \div Pow2(r))
                       + (IF i < n THEN (a[q + i + 1] % Pow2(r)) * Pow2(15 - r)
                          ELSE 0)])

\* a % 2^k
BLow(a, k) ==
    LET q == k \div 15
        r == k % 15
    IN  IF Len(a) <= q THEN a
        ELSE BNorm(SubSeq(a, 1, q) \o <<a[q + 1] % Pow2(r)>>)

RECURSIVE IntBits(_)
IntBits(n) == IF n = 0 THEN 0 ELSE 1 + IntBits(n \div 2)

\* The number of bits of a: 0 for 0, else 1 + floor(log2 a).
BBits(a) == IF a = <<>> THEN 0 ELSE (Len(a) - 1) * 15 + IntBits(a[Len(a)])

BOdd(a) == a # <<>> /\ a[1] % 2 = 1

\* The largest digit q in lo..hi with q * d <= r (one exists: lo * d <= r).
RECURSIVE BDigit(_, _, _, _)
BDigit(r, d, lo, hi) ==
    IF lo = hi THEN lo
    ELSE LET mid == (lo + hi + 1) \div 2
         IN  IF BCmp(BMulSmall(d, mid), r) <= 0 THEN BDigit(r, d, mid, hi)
             ELSE BDigit(r, d, lo, mid - 1)

\* Long division, one digit of n at a time from digit i down: [q, r] with
\* n = q * d + r and r < d.
RECURSIVE BDivFrom(_, _, _, _, _)
BDivFrom(n, d, i, q, r) ==
    IF i = 0 THEN [q |-> q, r |-> r]
    ELSE LET r2 == BNorm(<<n[i]>> \o r)
             dg == BDigit(r2, d, 0, Base - 1)
         IN  BDivFrom(n, d, i - 1, BNorm(<<dg>> \o q),
                      BSub(r2, BMulSmall(d, dg)))

BDivMod(n, d) == BDivFrom(n, d, Len(n), <<>>, <<>>)

\* ------------------------------------------------------------------------
\* The floating-point type T and its values.

Max(x, y) == IF x >= y THEN x ELSE y

Min(x, y) == IF x <= y THEN x ELSE y

\* The exponent of the last significand bit of the subnormal and of the
\* largest values of format F.
QMin(F) == F.emin - F.p + 1

QMax(F) == F.emax - F.p + 1

FZero(s) == [k |-> "fin", s |-> s, m |-> <<>>, e |-> 0]

FInf(s) == [k |-> "inf", s |-> s, m |-> <<>>, e |-> 0]

FNaN == [k |-> "nan", s |-> 0, m |-> <<>>, e |-> 0]

\* The integer n >= 0 as an exact value.
FInt(n) == [k |-> "fin", s |-> 0, m |-> BFromInt(n), e |-> 0]

IsNaN(x) == x.k = "nan"

IsInf(x) == x.k = "inf"

IsFinite(x) == x.k = "fin"

IsZero(x) == x.k = "fin" /\ x.m = <<>>

Xor(s, t) == IF s = t THEN 0 ELSE 1

\* The significand m (already rounded) at exponent t as a value of F:
\* a carry out of the significand moves to the next exponent, an exponent
\* beyond the largest overflows to infinity.
Pack(F, s, m, t) ==
    IF m = <<>> THEN FZero(s)
    ELSE LET over == BBits(m) > F.p
             m2 == IF over THEN BShr(m, 1) ELSE m
             t2 == IF over THEN t + 1 ELSE t
         IN  IF t2 > QMax(F) THEN FInf(s)
             ELSE [k |-> "fin", s |-> s, m |-> m2, e |-> t2]

\* The value (-1)^s * (M + f) * 2^E, where 0 <= f < 1 and sticky says
\* f > 0, rounded to format F: to nearest, ties to even.
Round(F, s, M, E, sticky) ==
    IF M = <<>> THEN FZero(s)
    ELSE LET t == Max(E + BBits(M) - F.p, QMin(F))
         IN  IF t <= E THEN Pack(F, s, BShl(M, E - t), t)
             ELSE LET sh == t - E
                      q == BShr(M, sh)
                      c == BCmp(BLow(M, sh), BShl(<<1>>, sh - 1))
                      up == c > 0 \/ (c = 0 /\ (sticky \/ BOdd(q)))
                  IN  Pack(F, s, IF up THEN BAdd(q, <<1>>) ELSE q, t)

\* x + y in type F.
FAdd(F, x, y) ==
    IF IsNaN(x) \/ IsNaN(y) THEN FNaN
    ELSE IF IsInf(x) /\ IsInf(y) THEN (IF x.s = y.s THEN x ELSE FNaN)
    ELSE IF IsInf(x) THEN x
    ELSE IF IsInf(y) THEN y
    ELSE IF IsZero(x) /\ IsZero(y) THEN FZero(IF x.s = y.s THEN x.s ELSE 0)
    ELSE IF IsZero(x) THEN y
    ELSE IF IsZero(y) THEN x
    ELSE LET e0 == Min(x.e, y.e)
             A == BShl(x.m, x.e - e0)
             B == BShl(y.m, y.e - e0)
             c == BCmp(A, B)
         IN  IF x.s = y.s THEN Round(F, x.s, BAdd(A, B), e0, FALSE)
             ELSE IF c = 0 THEN FZero(0)
             ELSE IF c > 0 THEN Round(F, x.s, BSub(A, B), e0, FALSE)
             ELSE Round(F, y.s, BSub(B, A), e0, FALSE)

\* x * y in type F.
FMul(F, x, y) ==
    IF IsNaN(x) \/ IsNaN(y) THEN FNaN
    ELSE IF (IsInf(x) /\ IsZero(y)) \/ (IsZero(x) /\ IsInf(y)) THEN FNaN
    ELSE IF IsInf(x) \/ IsInf(y) THEN FInf(Xor(x.s, y.s))
    ELSE IF IsZero(x) \/ IsZero(y) THEN FZero(Xor(x.s, y.s))
    ELSE Round(F, Xor(x.s, y.s), BMul(x.m, y.m), x.e + y.e, FALSE)

\* x / y in type F: the quotient of the significands is taken to p + 2
\* bits at least, the remainder decides the sticky bit.
FDiv(F, x, y) ==
    IF IsNaN(x) \/ IsNaN(y) THEN FNaN
    ELSE IF IsInf(x) /\ IsInf(y) THEN FNaN
    ELSE IF IsInf(x) THEN FInf(Xor(x.s, y.s))
    ELSE IF IsInf(y) THEN FZero(Xor(x.s, y.s))
    ELSE IF IsZero(x) /\ IsZero(y) THEN FNaN
    ELSE IF IsZero(y) THEN FInf(Xor(x.s, y.s))
    ELSE IF IsZero(x) THEN FZero(Xor(x.s, y.s))
    ELSE LET k == Max(0, F.p + 2 + BBits(y.m) - BBits(x.m))
             qr == BDivMod(BShl(x.m, k), y.m)
         IN  Round(F, Xor(x.s, y.s), qr.q, x.e - y.e - k, qr.r # <<>>)

\* The magnitudes of x and y compared, neither a NaN: -1, 0 or 1.  The
\* operands may be of different types.
MagCmp(x, y) ==
    IF IsInf(x) /\ IsInf(y) THEN 0
    ELSE IF IsInf(x) THEN 1
    ELSE IF IsInf(y) THEN -1
    ELSE LET e0 == Min(x.e, y.e)
         IN  BCmp(BShl(x.m, x.e - e0), BShl(y.m, y.e - e0))

\* x == y and x != y of C++: a NaN differs from everything, the two zeros
\* are equal.
FEq(x, y) ==
    /\ ~IsNaN(x)
    /\ ~IsNaN(y)
    /\ \/ IsZero(x) /\ IsZero(y)
       \/ x.s = y.s /\ MagCmp(x, y) = 0

FNe(x, y) == ~FEq(x, y)

\* x < y and x <= y of C++: false when either is a NaN.
FLt(x, y) ==
    IF IsNaN(x) \/ IsNaN(y) THEN FALSE
    ELSE IF IsZero(x) /\ IsZero(y) THEN FALSE
    ELSE IF x.s # y.s THEN x.s = 1
    ELSE IF x.s = 0 THEN MagCmp(x, y) < 0
    ELSE MagCmp(x, y) > 0

FLe(x, y) == FLt(x, y) \/ FEq(x, y)

\* A finite value converted to type F (exact when F is wider).
Convert(F, x) ==
    IF IsFinite(x) THEN Round(F, x.s, x.m, x.e, FALSE) ELSE x

\* The decimal literal n / d read in type F.
Literal(F, n, d) == FDiv(F, FInt(n), FInt(d))


\* 1 and 0 in type F.
One(F) == Convert(F, FInt(1))

Zero == FZero(0)

\* Every value of type F.
Floats(F) ==
    {FNaN}
      \cup {FInf(s) : s \in {0, 1}}
      \cup {FZero(s) : s \in {0, 1}}
      \cup {[k |-> "fin", s |-> s, m |-> BFromInt(m), e |-> QMin(F)] :
              s \in {0, 1}, m \in 1..(Pow2(F.p - 1) - 1)}
      \cup {[k |-> "fin", s |-> s, m |-> BFromInt(m), e |-> e] :
              s \in {0, 1}, m \in Pow2(F.p - 1)..(Pow2(F.p) - 1),
              e \in QMin(F)..QMax(F)}

\* ------------------------------------------------------------------------
\* The types the program is instantiated with, and the small type the
\* functions are explored over exhaustively.

SingleP == 24
DoubleP == 53
ExtendedP == 64

Single == [p |-> SingleP, emin |-> -126, emax |-> 127]

DoubleAsSingle == Single

Double == [p |-> DoubleP, emin |-> -1022, emax |-> 1023]

Extended == [p |-> ExtendedP, emin |-> -16382, emax |-> 16383]

TinyP == 2
ExpBelow == 1
ExpAbove == 1
MaxLen == 2

Tiny == [p |-> TinyP, emin |-> -ExpBelow, emax |-> ExpAbove]

\* ------------------------------------------------------------------------
\* The program state.

VARIABLES
    T,              \* the type the templates are instantiated with
    value,          \* accuracy_vector: parameter value
    divisors,       \* accuracy_vector: parameter divisors
    initial_guess,  \* accuracy_vector: parameter initial_guess
    pc,             \* "for": line 74, "while": line 32, "done": line 82
    i,              \* accuracy_vector: loop index
    guess,          \* accuracy_vector: current guess
    output,         \* accuracy_vector: the output vector
    epsilon,        \* accuracy_bound: epsilon
    last,           \* the value of epsilon tested before the latest division
    divided,        \* the while loop of this call has divided
    calls,          \* number of calls of accuracy_bound
    phase,          \* main: which of the three runs is under way
    results         \* main: single_vector, double_vector, extended_vector

vars ==
    <<T, value, divisors, initial_guess, pc, i, guess, output, epsilon, last,
      divided, calls, phase, results>>

mainVars == <<phase, results>>

args == <<T, value, divisors, initial_guess>>

\* value + epsilon != value (line 32), in type F.
Significant(F, v, eps) == FNe(FAdd(F, v, eps), v)

\* epsilon /= divisor (line 34).
ShrinkMultiplies(F, eps, d) == FMul(F, eps, d)

Shrink(F, eps, d) == FDiv(F, eps, d)

\* return epsilon * divisor (line 39).
BackOffNoMultiply(F, eps, d) == eps

BackOffDivides(F, eps, d) == FDiv(F, eps, d)

BackOff(F, eps, d) == FMul(F, eps, d)

\* accuracy_bound as a function, for arguments it returns on.
RECURSIVE accuracy_bound(_, _, _, _)
accuracy_bound(F, v, d, eps) ==
    IF Significant(F, v, eps) THEN accuracy_bound(F, v, d, Shrink(F, eps, d))
    ELSE BackOff(F, eps, d)

\* std::vector<T> output(size) (line 65): size zeros.
OutputInitEmpty(ds) == <<>>

OutputInit(ds) == [j \in 1..Len(ds) |-> Zero]

\* guess = output[i] (line 78): the guess g gives way to the result r.
CarryStale(g, r) == g

Carry(g, r) == r

\* The state accuracy_vector starts in: lines 62 to 71.
Enter(F, v, ds, g) ==
    /\ T = F
    /\ value = v
    /\ divisors = ds
    /\ initial_guess = g
    /\ pc = "for"
    /\ i = 0
    /\ guess = g
    /\ output = OutputInit(ds)
    /\ epsilon = Zero
    /\ last = Zero
    /\ divided = FALSE
    /\ calls = 0

\* Line 76: accuracy_bound is called with the ith divisor and the guess;
\* line 29 sets epsilon.
Call ==
    /\ pc = "for"
    /\ i < Len(divisors)
    /\ pc' = "while"
    /\ epsilon' = guess
    /\ last' = guess
    /\ divided' = FALSE
    /\ calls' = calls + 1
    /\ UNCHANGED <<args, i, guess, output, mainVars>>

\* Lines 32 to 35: the test holds and epsilon is divided.
Divide ==
    /\ pc = "while"
    /\ Significant(T, value, epsilon)
    /\ epsilon' = Shrink(T, epsilon, divisors[i + 1])
    /\ last' = epsilon
    /\ divided' = TRUE
    /\ UNCHANGED <<args, pc, i, guess, output, calls, mainVars>>

\* Lines 32, 39, 76, 78 and 74: the test fails, accuracy_bound returns,
\* the result is stored, carried forward and the index stepped.
Return ==
    /\ pc = "while"
    /\ ~Significant(T, value, epsilon)
    /\ LET r == BackOff(T, epsilon, divisors[i + 1])
       IN  /\ output' = [output EXCEPT ![i + 1] = r]
           /\ guess' = Carry(guess, r)
    /\ i' = i + 1
    /\ pc' = "for"
    /\ UNCHANGED <<args, epsilon, last, divided, calls, mainVars>>

\* Lines 74 and 82: the loop is over and output is returned.
Finish ==
    /\ pc = "for"
    /\ i >= Len(divisors)
    /\ pc' = "done"
    /\ UNCHANGED <<args, i, guess, output, epsilon, last, divided, calls,
                   mainVars>>

Next == Call \/ Divide \/ Return \/ Finish

\* Sequences of at most n elements of S.
SeqsUpTo(S, n) == UNION {[1..k -> S] : k \in 0..n}

\* The values of S that are not negative (sign bit clear), and the NaN.
NonNegative(S) == {x \in S : x.s = 0}

\* The values of type F above 1, the infinity among them.
AboveOne(F) == {x \in Floats(F) : FLt(One(F), x)}

\* The powers of two of type F up to 1, from the smallest subnormal.
PowersUpToOne(F) ==
    {[k |-> "fin", s |-> 0, m |-> BFromInt(Pow2(n)), e |-> QMin(F)] :
        n \in 0..(F.p - 2)}
      \cup {[k |-> "fin", s |-> 0, m |-> BFromInt(Pow2(F.p - 1)), e |-> e] :
              e \in QMin(F)..(1 - F.p)}

\* One call of accuracy_bound through accuracy_vector (or none), on every
\* divisor and initial guess of the small type and every value of it that
\* is not negative: negating value and initial_guess negates every epsilon
\* and every sum, rounding being symmetric.
Init ==
    /\ phase = "none"
    /\ results = <<>>
    /\ \E v \in NonNegative(Floats(Tiny)), g \in Floats(Tiny),
          ds \in SeqsUpTo(Floats(Tiny), 1) : Enter(Tiny, v, ds, g)

Spec == Init /\ [][Next]_vars

\* accuracy_vector on the divisor sequences of the small type whose
\* divisors are all above 1, for the values 0 and 1 and the initial guesses
\* 0 and the powers of two up to 1.
InitVec ==
    /\ phase = "none"
    /\ results = <<>>
    /\ \E v \in {Zero, One(Tiny)}, g \in {Zero} \cup PowersUpToOne(Tiny),
          ds \in SeqsUpTo(AboveOne(Tiny), MaxLen) : Enter(Tiny, v, ds, g)

SpecVec == InitVec /\ [][Next]_vars

\* ------------------------------------------------------------------------
\* main: lines 91 to 99.

\* Line 91: the literals are doubles, converted to float.
single_divisors ==
    [j \in 1..6 |->
        Convert(Single,
                Literal(Double,
                        <<2, 11, 101, 1001, 10001, 100001>>[j],
                        <<1, 10, 100, 1000, 10000, 100000>>[j]))]

\* Lines 92 and 93: each float divisor converted to the wider type.
Widen(F) == [j \in 1..6 |-> Convert(F, single_divisors[j])]

\* Line 97: accuracy_vector<float>(1.0, single_divisors, 1.0).
InitMain ==
    /\ phase = "single"
    /\ results = <<>>
    /\ Enter(Single, One(Single), single_divisors, One(Single))

\* accuracy_vector is called anew: lines 62 to 71.
Begin(F, v, ds, g) ==
    /\ T' = F
    /\ value' = v
    /\ divisors' = ds
    /\ initial_guess' = g
    /\ pc' = "for"
    /\ i' = 0
    /\ guess' = g
    /\ output' = OutputInit(ds)
    /\ epsilon' = Zero
    /\ last' = Zero
    /\ divided' = FALSE
    /\ calls' = 0

\* Lines 97 and 98: single_vector is set, accuracy_vector<double> called.
RunDouble ==
    /\ pc = "done"
    /\ phase = "single"
    /\ results' = Append(results, output)
    /\ phase' = "double"
    /\ Begin(Double, One(Double), Widen(Double), One(Double))

\* Lines 98 and 99: double_vector is set, accuracy_vector<long double>
\* called.
RunExtended ==
    /\ pc = "done"
    /\ phase = "double"
    /\ results' = Append(results, output)
    /\ phase' = "extended"
    /\ Begin(Extended, One(Extended), Widen(Extended), One(Extended))

\* Line 99: extended_vector is set; the vectors are then printed and
\* written out.
Collect ==
    /\ pc = "done"
    /\ phase = "extended"
    /\ results' = Append(results, output)
    /\ phase' = "print"
    /\ UNCHANGED <<args, pc, i, guess, output, epsilon, last, divided,
                   calls>>

NextMain == Next \/ RunDouble \/ RunExtended \/ Collect

SpecMain == InitMain /\ [][NextMain]_vars

\* ------------------------------------------------------------------------
\* The claims.  Stage j of accuracy_vector is the call of accuracy_bound
\* with divisors[j]; the stages 1..i have returned.

\* The guess stage j started from.
Prev(j) == IF j = 1 THEN initial_guess ELSE output[j - 1]

\* The divisor of the call under way.
D == divisors[i + 1]

InCall == pc = "while"

\* The arguments of accuracy_vector are all finite.
FiniteArgs ==
    /\ IsFinite(value)
    /\ IsFinite(initial_guess)
    /\ \A j \in 1..Len(divisors) : IsFinite(divisors[j])

AllAboveOne == \A j \in 1..Len(divisors) : FLt(One(T), divisors[j])

\* C1 (as claimed, here on finite arguments): for every value, every
\* divisor > 1 and every initial guess significant at entry, the bound g a
\* call returns has value + g != value and value + g / divisor == value.
C1_OneStepBeforeLoss ==
    \A j \in 1..i :
        (FiniteArgs /\ FLt(One(T), divisors[j])
           /\ Significant(T, value, Prev(j)))
            => /\ Significant(T, value, output[j])
               /\ ~Significant(T, value, FDiv(T, output[j], divisors[j]))

\* C2 (as claimed): a call with a finite value, a finite divisor > 1 and a
\* finite initial guess leaves the while loop.  The loop changes epsilon
\* alone and the same epsilon gives the same step again, so a loop that
\* ends never finds the test holding on an epsilon the division leaves as
\* it is.
C2_LoopTerminates ==
    ( /\ InCall
      /\ IsFinite(value)
      /\ IsFinite(D)
      /\ FLt(One(T), D)
      /\ IsFinite(guess)
      /\ Significant(T, value, epsilon) )
        => Shrink(T, epsilon, D) # epsilon

\* C3: the vector accuracy_vector returns is as long as divisors; for no
\* divisors it is empty and accuracy_bound is never called.  (The vector has
\* its length from the start, and one call is made per stage.)
C3_LengthOfOutput ==
    /\ Len(output) = Len(divisors)
    /\ DOMAIN output = 1..Len(divisors)
    /\ calls = (IF InCall THEN i + 1 ELSE i)
    /\ (pc = "done" => calls = Len(divisors))
    /\ (divisors = <<>> => output = <<>> /\ calls = 0)

C3_Witness ==
    /\ pc = "done"
    /\ Len(divisors) >= 2
    /\ Len(output) = Len(divisors)
    /\ calls = Len(divisors)

\* C4: the output of every stage is accuracy_bound of the same value, the
\* divisor of the stage and the guess before it: initial_guess for the
\* first stage, the output of the stage before for the others; the stages
\* not reached yet still hold the zeros the vector started with.
C4_StagesThreaded ==
    /\ \A j \in 1..i :
           output[j] = accuracy_bound(T, value, divisors[j], Prev(j))
    /\ \A j \in (i + 1)..Len(divisors) : output[j] = Zero
    /\ (~InCall /\ i >= 1 => guess = output[i])

C4_Witness ==
    /\ pc = "done"
    /\ i >= 2
    /\ value = One(T)
    /\ initial_guess = One(T)
    /\ FiniteArgs
    /\ divisors[1] # divisors[2]
    /\ FLt(output[2], output[1])
    /\ FLt(output[1], initial_guess)

\* The last bound of the kth run of main.
Final(k) == results[k][Len(results[k])]

\* C5: for the value 1, the initial guess 1 and the divisors of main, the
\* last bound found in float is above the one found in double, and that one
\* above the one found in long double.
C5_NarrowerIsLarger ==
    phase = "print" => FLt(Final(2), Final(1)) /\ FLt(Final(3), Final(2))

C5_Witness ==
    /\ phase = "print"
    /\ Len(results) = 3
    /\ \A k \in 1..3 : Len(results[k]) = 6 /\ IsFinite(Final(k))
    /\ FLt(Zero, Final(3))

\* 2^n.
TwoTo(n) == [k |-> "fin", s |-> 0, m |-> <<1>>, e |-> n]

\* C6: accuracy_bound(1, 2, 1) in a type of p bits halves the guess at
\* every step and returns a value within a factor 2 of 2^-(p-1).
C6_HalvingFindsEpsilon ==
    (value = One(T) /\ initial_guess = One(T) /\ Len(divisors) >= 1
       /\ FEq(divisors[1], TwoTo(1)))
        => /\ (InCall /\ i = 0 /\ divided
                  => FEq(FAdd(T, epsilon, epsilon), last))
           /\ (i >= 1
                  => /\ FLe(TwoTo(0 - T.p), output[1])
                     /\ FLe(output[1], TwoTo(2 - T.p)))

C6_Witness ==
    /\ T = Double
    /\ i >= 1
    /\ value = One(T)
    /\ initial_guess = One(T)
    /\ FEq(divisors[1], TwoTo(1))
    /\ FEq(output[1], TwoTo(-52))

\* C7 (as claimed, here on finite arguments): with a divisor <= 1 and an
\* initial guess significant at entry the loop test holds at every
\* iteration.
C7_NeverTerminates ==
    (InCall /\ FiniteArgs /\ FLe(D, One(T)) /\ Significant(T, value, guess))
        => Significant(T, value, epsilon)

\* C7 (amended): with a divisor from +0 to 1 (neither negative nor -0) and
\* an initial guess significant at entry the loop test holds at every
\* iteration, so the call never returns.
C7_NeverTerminatesFromZeroToOne ==
    /\ (InCall /\ D.s = 0 /\ FLe(D, One(T)) /\ Significant(T, value, guess))
           => Significant(T, value, epsilon)
    /\ \A j \in 1..i :
           ~(divisors[j].s = 0 /\ FLe(divisors[j], One(T))
               /\ Significant(T, value, Prev(j)))

C7_Witness ==
    /\ InCall
    /\ divided
    /\ D.s = 0
    /\ FLt(Zero, D)
    /\ FLt(D, One(T))
    /\ IsFinite(value)
    /\ IsFinite(epsilon)
    /\ Significant(T, value, guess)

\* C8: a call whose initial guess is not significant at entry divides
\* nothing and returns the initial guess times the divisor, significant or
\* not; accuracy_vector starts the next stage from the value returned.
C8_InsignificantEntry ==
    /\ \A j \in 1..i :
           ~Significant(T, value, Prev(j))
               => output[j] = FMul(T, Prev(j), divisors[j])
    /\ (InCall /\ ~Significant(T, value, guess))
           => ~divided /\ epsilon = guess
    /\ (~InCall /\ i >= 1 /\ ~Significant(T, value, Prev(i))) => ~divided
    /\ (i >= 1 /\ (InCall => ~divided))
           => guess = output[i] /\ (InCall => epsilon = output[i])

C8_Witness ==
    /\ InCall
    /\ i = 1
    /\ ~divided
    /\ FLt(Zero, initial_guess)
    /\ ~Significant(T, value, initial_guess)
    /\ output[1] = FMul(T, initial_guess, divisors[1])
    /\ output[1] # initial_guess
    /\ epsilon = output[1]

\* C9 (as claimed, here for the value 1 and the initial guess 1): when the
\* loop has divided, the value returned equals the last guess that passed
\* the test, for every divisor > 1.
C9_ReturnsLastSignificant ==
    (~InCall /\ i >= 1 /\ divided /\ FiniteArgs /\ value = One(T)
       /\ initial_guess = One(T) /\ FLt(One(T), divisors[i]))
        => FEq(output[i], last)

\* C10 (as claimed, here on finite divisors): for the value 1, the initial
\* guess 1 and divisors all > 1, no output is above the output before it,
\* nor the first above the initial guess.
C10_OutputsNeverIncrease ==
    (value = One(T) /\ initial_guess = One(T) /\ FiniteArgs /\ AllAboveOne)
        => \A j \in 1..i : FLe(output[j], Prev(j))


====
